---- MODULE Spec2Model ----
(***************************************************************************)
(* A model of tscpp (trivially serializable C++): the buffer API           *)
(* (serialize / unserialize / unserializeUnknown / peekTypeName), the      *)
(* stream API (OutputArchive, InputArchive, UnknownInputArchive) and the   *)
(* type pool they share.                                                   *)
(*                                                                         *)
(* Bytes are naturals, 0 is the terminator '\0'.  A C string is modelled   *)
(* by the sequence of its bytes before the terminator; CStr appends it.    *)
(* Memory regions and stream contents are sequences of bytes, indexed      *)
(* from 1 (byte i of the model is offset i-1 of the code).                 *)
(*                                                                         *)
(* The two transports share no state but the type pool, so a behaviour     *)
(* works on one of them: kind says which, and the other stays as built.    *)
(***************************************************************************)
EXTENDS Integers, Sequences, FiniteSets, TLC

\* ------------------------------------------------------------- bounds
\* number of distinct serializable types the harness uses
NumTypes == 3
\* number of distinct user callbacks that can be registered
NumCallbacks == 2
\* payload bytes range over 0..MaxPayloadByte
MaxPayloadByte == 1
\* capacity of the caller's memory buffer
BufCap == 4
\* the output stream holds at most this many records
MaxRecords == 2
\* a truncated stream misses at most this many bytes
MaxCut == 2

\* ------------------------------------------------------ error codes
BufferTooSmall == -1
WrongType == -2
UnknownType == -3
\* tscpp.cpp spells the last two TypeMismatch and TypeNotFound
TypeMismatch == WrongType
TypeNotFound == UnknownType

\* ------------------------------------------------------------ types
Types == 1..NumTypes
Callbacks == 1..NumCallbacks

\* typeid(T).name(): one distinct, terminator-free string per type
TypeName(T) ==
    CASE T = 1 -> <<>>
      [] T = 2 -> <<1>>
      [] T = 3 -> <<2, 1>>
      [] T = 4 -> <<2>>
      [] OTHER -> <<1, 2>>

\* sizeof(T)
SizeOf(T) == IF T = 2 THEN 2 ELSE 1

RECURSIVE SeqsOfLen(_, _)
SeqsOfLen(S, n) ==
    IF n = 0 THEN {<<>>}
    ELSE {Append(s, x) : s \in SeqsOfLen(S, n - 1), x \in S}

\* the byte images a value of type T can have
Values(T) == SeqsOfLen(0..MaxPayloadByte, SizeOf(T))

SetMin(S) == CHOOSE x \in S : \A y \in S : x <= y

\* ------------------------------------------------- C library helpers
CStr(name) == name \o <<0>>

strlen(name) == Len(name)

\* strnlen(buf, n): index of the first 0 among the first n bytes, else n
strnlen(buf, n) ==
    LET zeros == {i \in 1..n : buf[i] = 0}
    IN IF zeros = {} THEN n ELSE SetMin(zeros) - 1

\* memcpy(dst + off, src, n)
memcpy(dst, off, src, n) ==
    [i \in 1..Len(dst) |-> IF i > off /\ i <= off + n THEN src[i - off] ELSE dst[i]]

\* memcmp(a, b, n) != 0
memcmp(a, b, n) == \E i \in 1..n : a[i] # b[i]

\* ------------------------------------------------------- type pool
\* registerType keeping the entry a tag already has (map::insert)
registerType_keepsFirst(tp, T, cb) ==
    [n \in (DOMAIN tp) \cup {TypeName(T)} |->
        IF n \in DOMAIN tp THEN tp[n] ELSE [size |-> SizeOf(T), cb |-> cb]]

\* TypePool::types after registerType<T>(callback): the entry for
\* typeid(T).name() is replaced by (sizeof(T), usc), where usc copies
\* sizeof(T) bytes into a T and passes it to callback cb
registerType(tp, T, cb) ==
    [n \in (DOMAIN tp) \cup {TypeName(T)} |->
        IF n = TypeName(T) THEN [size |-> SizeOf(T), cb |-> cb] ELSE tp[n]]

\* it->second.usc(buffer): the invocation of the user callback with the
\* value rebuilt from size bytes
usc(entry, bytes) == <<[cb |-> entry.cb, arg |-> bytes]>>

\* ------------------------------------------------------ buffer API
\* serializeImpl refusing a buffer that fits the record exactly
serializeImpl_refusesExactFit(buffer, bufSize, name, data, size) ==
    LET nameSize == strlen(name)
        serializedSize == nameSize + 1 + size
    IN IF serializedSize >= bufSize
       THEN [ret |-> BufferTooSmall, buffer |-> buffer]
       ELSE [ret |-> serializedSize,
             buffer |-> memcpy(memcpy(buffer, 0, CStr(name), nameSize + 1),
                               nameSize + 1, data, size)]

\* serializeImpl copying the name before it checks the size
serializeImpl_writesBeforeCheck(buffer, bufSize, name, data, size) ==
    LET nameSize == strlen(name)
        serializedSize == nameSize + 1 + size
        named == memcpy(buffer, 0, CStr(name), nameSize + 1)
    IN IF serializedSize > bufSize
       THEN [ret |-> BufferTooSmall, buffer |-> named]
       ELSE [ret |-> serializedSize,
             buffer |-> memcpy(named, nameSize + 1, data, size)]

\* serializeImpl(buffer, bufSize, name, data, size)
serializeImpl(buffer, bufSize, name, data, size) ==
    LET nameSize == strlen(name)
        serializedSize == nameSize + 1 + size
    IN IF serializedSize > bufSize
       THEN [ret |-> BufferTooSmall, buffer |-> buffer]
       ELSE [ret |-> serializedSize,
             buffer |-> memcpy(memcpy(buffer, 0, CStr(name), nameSize + 1),
                               nameSize + 1, data, size)]

\* unserializeImpl comparing the tag without its terminator
unserializeImpl_comparesWithoutTerminator(name, data, size, buffer, bufSize) ==
    LET nameSize == strlen(name)
        serializedSize == nameSize + 1 + size
    IN IF serializedSize > bufSize
       THEN [ret |-> BufferTooSmall, data |-> data, reads |-> 0]
       ELSE IF memcmp(buffer, CStr(name), nameSize)
       THEN [ret |-> TypeMismatch, data |-> data, reads |-> nameSize + 1]
       ELSE [ret |-> serializedSize,
             data |-> SubSeq(buffer, nameSize + 2, nameSize + 1 + size),
             reads |-> serializedSize]

\* unserializeImpl copying the payload from one byte too early
unserializeImpl_payloadFromTerminator(name, data, size, buffer, bufSize) ==
    LET nameSize == strlen(name)
        serializedSize == nameSize + 1 + size
    IN IF serializedSize > bufSize
       THEN [ret |-> BufferTooSmall, data |-> data, reads |-> 0]
       ELSE IF memcmp(buffer, CStr(name), nameSize + 1)
       THEN [ret |-> TypeMismatch, data |-> data, reads |-> nameSize + 1]
       ELSE [ret |-> serializedSize,
             data |-> SubSeq(buffer, nameSize + 1, nameSize + size),
             reads |-> serializedSize]

\* unserializeImpl(name, data, size, buffer, bufSize); reads is the number
\* of leading bytes of the source buffer the call examines
unserializeImpl(name, data, size, buffer, bufSize) ==
    LET nameSize == strlen(name)
        serializedSize == nameSize + 1 + size
    IN IF serializedSize > bufSize
       THEN [ret |-> BufferTooSmall, data |-> data, reads |-> 0]
       ELSE IF memcmp(buffer, CStr(name), nameSize + 1)
       THEN [ret |-> TypeMismatch, data |-> data, reads |-> nameSize + 1]
       ELSE [ret |-> serializedSize,
             data |-> SubSeq(buffer, nameSize + 2, nameSize + 1 + size),
             reads |-> serializedSize]

\* TypePool::unserializeUnknownImpl(name, buffer, bufSize) of the buffer
\* API; the code's buffer pointer is buffer + off
unserializeUnknownImplBuffer(tp, name, buffer, off, bufSize) ==
    IF name \notin DOMAIN tp
    THEN [ret |-> TypeNotFound, calls |-> <<>>, reads |-> 0]
    ELSE IF tp[name].size > bufSize
    THEN [ret |-> BufferTooSmall, calls |-> <<>>, reads |-> 0]
    ELSE [ret |-> tp[name].size,
          calls |-> usc(tp[name], SubSeq(buffer, off + 1, off + tp[name].size)),
          reads |-> tp[name].size]

\* unserializeUnknown(tp, buffer, bufSize)
unserializeUnknown(tp, buffer, bufSize) ==
    LET nameSize == strnlen(buffer, bufSize)
    IN IF nameSize >= bufSize
       THEN [ret |-> BufferTooSmall, calls |-> <<>>, reads |-> bufSize]
       ELSE LET name == SubSeq(buffer, 1, nameSize)
                r == unserializeUnknownImplBuffer(tp, name, buffer, nameSize + 1,
                                                  bufSize - (nameSize + 1))
            IN [ret |-> r.ret + nameSize + 1,
                calls |-> r.calls,
                reads |-> nameSize + 1 + r.reads]

\* peekTypeName accepting a name that fills the whole bufSize bytes
peekTypeName_acceptsUnterminated(buffer, bufSize) ==
    LET nameSize == strnlen(buffer, bufSize)
    IN IF nameSize > bufSize
       THEN [ret |-> <<>>, reads |-> bufSize]
       ELSE [ret |-> SubSeq(buffer, 1, strnlen(buffer, Len(buffer))),
             reads |-> strnlen(buffer, Len(buffer)) + 1]

\* peekTypeName(buffer, bufSize); the returned std::string is built from
\* the C string at buffer, so it is the bytes before the first terminator
peekTypeName(buffer, bufSize) ==
    LET nameSize == strnlen(buffer, bufSize)
    IN IF nameSize >= bufSize
       THEN [ret |-> <<>>, reads |-> bufSize]
       ELSE [ret |-> SubSeq(buffer, 1, strnlen(buffer, Len(buffer))),
             reads |-> nameSize + 1]

\* ------------------------------------------------- std::istream
\* An istream is [pos, eof, fail]: the get position in the stream's data
\* and the eofbit and failbit of its state (badbit is never set).

\* istream::sentry of an unformatted input function: a stream that is
\* not good() gets failbit
sentry(s) == IF s.eof \/ s.fail THEN [s EXCEPT !.fail = TRUE] ELSE s

\* is.tellg(): -1 when the stream has failed
tellg(s) ==
    LET s1 == sentry(s)
    IN [is |-> s1, pos |-> IF s1.fail THEN -1 ELSE s1.pos]

\* is.seekg(pos): clears eofbit first; fails on a failed stream and on -1
seekg(d, s, pos) ==
    LET s1 == sentry([s EXCEPT !.eof = FALSE])
    IN IF s1.fail THEN s1
       ELSE IF pos < 0 \/ pos > Len(d) THEN [s1 EXCEPT !.fail = TRUE]
       ELSE [s1 EXCEPT !.pos = pos]

\* is.read(dst, n): dst with its first bytes replaced by the bytes
\* extracted; fewer than n available sets eofbit and failbit
read(d, s, dst, n) ==
    LET s1 == sentry(s)
        avail == Len(d) - s.pos
    IN IF s1.fail THEN [is |-> s1, dst |-> dst]
       ELSE IF avail >= n
       THEN [is |-> [s1 EXCEPT !.pos = s.pos + n],
             dst |-> SubSeq(d, s.pos + 1, s.pos + n)]
       ELSE [is |-> [pos |-> Len(d), eof |-> TRUE, fail |-> TRUE],
             dst |-> SubSeq(d, s.pos + 1, Len(d)) \o SubSeq(dst, avail + 1, n)]

\* getline(is, name, '\0') into an empty string: extracts up to and
\* including the terminator; end of data sets eofbit, and failbit too
\* when nothing was extracted
getline(d, s) ==
    LET s1 == sentry(s)
        zeros == {i \in (s.pos + 1)..Len(d) : d[i] = 0}
    IN IF s1.fail THEN [is |-> s1, str |-> <<>>]
       ELSE IF zeros # {}
       THEN [is |-> [s1 EXCEPT !.pos = SetMin(zeros)],
             str |-> SubSeq(d, s.pos + 1, SetMin(zeros) - 1)]
       ELSE [is |-> [pos |-> Len(d), eof |-> TRUE, fail |-> (s.pos = Len(d))],
             str |-> SubSeq(d, s.pos + 1, Len(d))]

\* new char[n]: storage whose content is never used before it is written
\* (see NoFailWithoutEof)
NewChars(n) == [i \in 1..n |-> 0]

\* ------------------------------------------------------ stream API
\* OutputArchive::serializeImpl writing the name without its terminator
OutputArchive_serializeImpl_noTerminator(d, name, data, size) ==
    LET nameSize == strlen(name)
    IN (d \o SubSeq(CStr(name), 1, nameSize)) \o SubSeq(data, 1, size)

\* OutputArchive::serializeImpl(name, data, size): the stream's data after
\* the two writes
OutputArchive_serializeImpl(d, name, data, size) ==
    LET nameSize == strlen(name)
    IN (d \o SubSeq(CStr(name), 1, nameSize + 1)) \o SubSeq(data, 1, size)

\* wrongType leaving the cursor after the name it read for the exception
wrongType_noRewind(d, s, pos, data) ==
    LET s1 == seekg(d, s, pos)
        g == getline(d, s1)
    IN [is |-> g.is, exc |-> "wrong type", name |-> g.str, data |-> data,
        pos |-> pos]

\* InputArchive::wrongType(pos)
wrongType(d, s, pos, data) ==
    LET s1 == seekg(d, s, pos)
        g == getline(d, s1)
        s2 == seekg(d, g.is, pos)
    IN [is |-> s2, exc |-> "wrong type", name |-> g.str, data |-> data,
        pos |-> pos]

\* InputArchive::unserializeImpl reading the name without its terminator
InputArchive_unserializeImpl_skipsTerminator(d, s, name, data, size) ==
    LET t == tellg(s)
        nameSize == strlen(name)
        r1 == read(d, t.is, NewChars(nameSize), nameSize)
    IN IF r1.is.eof
       THEN [is |-> r1.is, exc |-> "eof", name |-> <<>>, data |-> data,
             pos |-> t.pos]
       ELSE IF memcmp(r1.dst, name, nameSize)
       THEN wrongType(d, r1.is, t.pos, data)
       ELSE LET r2 == read(d, r1.is, data, size)
            IN [is |-> r2.is, exc |-> IF r2.is.eof THEN "eof" ELSE "none",
                name |-> <<>>, data |-> r2.dst, pos |-> t.pos]

\* InputArchive::unserializeImpl(name, data, size)
InputArchive_unserializeImpl(d, s, name, data, size) ==
    LET t == tellg(s)
        nameSize == strlen(name)
        r1 == read(d, t.is, NewChars(nameSize + 1), nameSize + 1)
    IN IF r1.is.eof
       THEN [is |-> r1.is, exc |-> "eof", name |-> <<>>, data |-> data,
             pos |-> t.pos]
       ELSE IF memcmp(r1.dst, CStr(name), nameSize + 1)
       THEN wrongType(d, r1.is, t.pos, data)
       ELSE LET r2 == read(d, r1.is, data, size)
            IN [is |-> r2.is, exc |-> IF r2.is.eof THEN "eof" ELSE "none",
                name |-> <<>>, data |-> r2.dst, pos |-> t.pos]

\* the stream unserializeUnknownImpl without its eof test
unserializeUnknownImplStream_ignoresEof(tp, name, d, s, pos) ==
    IF name \notin DOMAIN tp
    THEN [is |-> seekg(d, s, pos), exc |-> "unknown type", name |-> name,
          calls |-> <<>>, pos |-> pos]
    ELSE LET r == read(d, s, NewChars(tp[name].size), tp[name].size)
         IN [is |-> r.is, exc |-> "none", name |-> <<>>,
             calls |-> usc(tp[name], r.dst), pos |-> pos]

\* unserializeUnknownImpl throwing for an absent name without is.seekg(pos)
unserializeUnknownImplStream_noRewind(tp, name, d, s, pos) ==
    IF name \notin DOMAIN tp
    THEN [is |-> s, exc |-> "unknown type", name |-> name,
          calls |-> <<>>, pos |-> pos]
    ELSE LET r == read(d, s, NewChars(tp[name].size), tp[name].size)
         IN IF r.is.eof
            THEN [is |-> r.is, exc |-> "eof", name |-> <<>>, calls |-> <<>>,
                  pos |-> pos]
            ELSE [is |-> r.is, exc |-> "none", name |-> <<>>,
                  calls |-> usc(tp[name], r.dst), pos |-> pos]

\* TypePool::unserializeUnknownImpl(name, is, pos) of the stream API
unserializeUnknownImplStream(tp, name, d, s, pos) ==
    IF name \notin DOMAIN tp
    THEN [is |-> seekg(d, s, pos), exc |-> "unknown type", name |-> name,
          calls |-> <<>>, pos |-> pos]
    ELSE LET r == read(d, s, NewChars(tp[name].size), tp[name].size)
         IN IF r.is.eof
            THEN [is |-> r.is, exc |-> "eof", name |-> <<>>, calls |-> <<>>,
                  pos |-> pos]
            ELSE [is |-> r.is, exc |-> "none", name |-> <<>>,
                  calls |-> usc(tp[name], r.dst), pos |-> pos]

\* UnknownInputArchive::unserialize with is.seekg(pos) before it throws for
\* the end of the stream
UnknownInputArchive_unserialize_rewindsOnEof(tp, d, s) ==
    LET t == tellg(s)
        g == getline(d, t.is)
    IN IF g.is.eof
       THEN [is |-> seekg(d, g.is, t.pos), exc |-> "eof", name |-> <<>>,
             calls |-> <<>>, pos |-> t.pos]
       ELSE unserializeUnknownImplStream(tp, g.str, d, g.is, t.pos)

\* UnknownInputArchive::unserialize()
UnknownInputArchive_unserialize(tp, d, s) ==
    LET t == tellg(s)
        g == getline(d, t.is)
    IN IF g.is.eof
       THEN [is |-> g.is, exc |-> "eof", name |-> <<>>, calls |-> <<>>,
             pos |-> t.pos]
       ELSE unserializeUnknownImplStream(tp, g.str, d, g.is, t.pos)

\* ------------------------------------------------------------ state
VARIABLES
    kind,     \* the transport the harness owns: "buffer" or "stream"
    buffer,   \* the caller's memory buffer, BufCap bytes
    sdata,    \* the bytes of the stream the archives work on
    is,       \* the std::istream the input archives read from
    written,  \* the values written through the OutputArchive, in order
    pool,     \* TypePool::types, name -> [size, cb]
    last      \* the last call: arguments, outcome, and in pos0 the value
              \* of the local variable pos of the stream reads

vars == <<kind, buffer, sdata, is, written, pool, last>>

NoCall ==
    [op |-> "none", T |-> 0, bufSize |-> 0, val |-> <<>>, ret |-> 0,
     out |-> <<>>, exc |-> "none", name |-> <<>>, calls |-> <<>>,
     reads |-> 0, pos0 |-> 0]

\* length of the record of a value of type T
RecLen(T) == Len(TypeName(T)) + 1 + SizeOf(T)

\* the wire image of value v of type T
Record(T, v) == (TypeName(T) \o <<0>>) \o v

RECURSIVE TotalLen(_)
TotalLen(w) == IF w = <<>> THEN 0 ELSE RecLen(w[1].T) + TotalLen(Tail(w))

\* offset in the stream of the i-th written record (i = Len+1: the end)
RecStart(i) == TotalLen(SubSeq(written, 1, i - 1))

Init ==
    /\ kind \in {"buffer", "stream"}
    /\ buffer = [i \in 1..BufCap |-> 0]
    /\ sdata = <<>>
    /\ is = [pos |-> 0, eof |-> FALSE, fail |-> FALSE]
    /\ written = <<>>
    /\ pool = <<>>
    /\ last = NoCall

\* tp.registerType<T>(callback); last.out keeps the callback the tag had
\* before the call, if any
RegisterType(T, cb) ==
    /\ pool' = registerType(pool, T, cb)
    /\ last' = [NoCall EXCEPT !.op = "registerType", !.T = T, !.ret = cb,
                   !.name = TypeName(T),
                   !.out = IF TypeName(T) \in DOMAIN pool
                           THEN <<pool[TypeName(T)].cb>> ELSE <<>>]
    /\ UNCHANGED <<kind, buffer, sdata, is, written>>

\* serialize(buffer, bufSize, t)
Serialize(T, v, bufSize) ==
    /\ kind = "buffer"
    /\ LET r == serializeImpl(buffer, bufSize, TypeName(T), v, SizeOf(T))
       IN /\ buffer' = r.buffer
          /\ last' = [NoCall EXCEPT !.op = "serialize", !.T = T,
                         !.bufSize = bufSize, !.val = v, !.ret = r.ret]
    /\ UNCHANGED <<kind, sdata, is, written, pool>>

\* unserialize(t, buffer, bufSize), t holding t0 before the call
Unserialize(T, t0, bufSize) ==
    /\ kind = "buffer"
    /\ LET r == unserializeImpl(TypeName(T), t0, SizeOf(T), buffer, bufSize)
       IN last' = [NoCall EXCEPT !.op = "unserialize", !.T = T,
                      !.bufSize = bufSize, !.val = t0, !.ret = r.ret,
                      !.out = r.data, !.reads = r.reads]
    /\ UNCHANGED <<kind, buffer, sdata, is, written, pool>>

\* unserializeUnknown(tp, buffer, bufSize)
UnserializeUnknown(bufSize) ==
    /\ kind = "buffer"
    /\ LET r == unserializeUnknown(pool, buffer, bufSize)
       IN last' = [NoCall EXCEPT !.op = "unserializeUnknown",
                      !.bufSize = bufSize, !.ret = r.ret,
                      !.calls = r.calls, !.reads = r.reads]
    /\ UNCHANGED <<kind, buffer, sdata, is, written, pool>>

\* peekTypeName(buffer, bufSize)
PeekTypeName(bufSize) ==
    /\ kind = "buffer"
    /\ LET r == peekTypeName(buffer, bufSize)
       IN last' = [NoCall EXCEPT !.op = "peekTypeName", !.bufSize = bufSize,
                      !.out = r.ret, !.reads = r.reads]
    /\ UNCHANGED <<kind, buffer, sdata, is, written, pool>>

\* oa << t
Write(T, v) ==
    /\ kind = "stream"
    /\ Len(written) < MaxRecords
    /\ Len(sdata) = TotalLen(written)
    /\ sdata' = OutputArchive_serializeImpl(sdata, TypeName(T), v, SizeOf(T))
    /\ written' = Append(written, [T |-> T, v |-> v])
    /\ last' = [NoCall EXCEPT !.op = "write", !.T = T, !.val = v]
    /\ UNCHANGED <<kind, buffer, is, pool>>

\* the stream handed to the input archives ends k bytes early (a file cut
\* short, a transmission interrupted)
Truncate(k) ==
    /\ kind = "stream"
    /\ Len(sdata) = TotalLen(written)
    /\ k >= 1 /\ k <= Len(sdata) - is.pos
    /\ sdata' = SubSeq(sdata, 1, Len(sdata) - k)
    /\ last' = [NoCall EXCEPT !.op = "truncate", !.ret = k]
    /\ UNCHANGED <<kind, buffer, is, written, pool>>

\* ia >> t, t holding t0 before the call
Read(T, t0) ==
    /\ kind = "stream"
    /\ LET r == InputArchive_unserializeImpl(sdata, is, TypeName(T), t0, SizeOf(T))
       IN /\ is' = r.is
          /\ last' = [NoCall EXCEPT !.op = "read", !.T = T, !.val = t0,
                         !.out = r.data, !.exc = r.exc, !.name = r.name,
                         !.pos0 = r.pos]
    /\ UNCHANGED <<kind, buffer, sdata, written, pool>>

\* uia.unserialize()
ReadUnknown ==
    /\ kind = "stream"
    /\ LET r == UnknownInputArchive_unserialize(pool, sdata, is)
       IN /\ is' = r.is
          /\ last' = [NoCall EXCEPT !.op = "readUnknown", !.exc = r.exc,
                         !.name = r.name, !.calls = r.calls, !.pos0 = r.pos]
    /\ UNCHANGED <<kind, buffer, sdata, written, pool>>

Next ==
    \/ \E T \in Types, cb \in Callbacks : RegisterType(T, cb)
    \/ \E T \in Types, bufSize \in 0..BufCap : \E v \in Values(T) :
          Serialize(T, v, bufSize)
    \/ \E T \in Types, bufSize \in 0..BufCap : \E t0 \in Values(T) :
          Unserialize(T, t0, bufSize)
    \/ \E bufSize \in 0..BufCap : UnserializeUnknown(bufSize)
    \/ \E bufSize \in 0..BufCap : PeekTypeName(bufSize)
    \/ \E T \in Types : \E v \in Values(T) : Write(T, v)
    \/ \E k \in 1..MaxCut : Truncate(k)
    \/ \E T \in Types : \E t0 \in Values(T) : Read(T, t0)
    \/ ReadUnknown

Spec == Init /\ [][Next]_vars

\* the istream never has failbit without eofbit, so the archives never
\* compare or deliver bytes that no read has written
NoFailWithoutEof == is.fail => is.eof

\* =========================================================== claims
\* vocabulary of the claims, stated on the data and not on the code

\* the buffer has a terminator among its first n bytes
Terminated(n) == \E i \in 1..n : buffer[i] = 0

\* the bytes of the buffer before its first terminator
LeadingTag ==
    LET zs == {i \in 1..Len(buffer) : buffer[i] = 0}
        n == IF zs = {} THEN Len(buffer)
             ELSE (CHOOSE i \in zs : \A j \in zs : i <= j) - 1
    IN [i \in 1..n |-> buffer[i]]

\* the bytes of the buffer from offset a (exclusive) to b (inclusive)
BufBytes(a, b) == [i \in 1..(b - a) |-> buffer[a + i]]

Good(s) == ~s.eof /\ ~s.fail

\* C1: a call of unserializeUnknown on a buffer whose leading bytes are a
\* terminator-bounded tag that the pool does not hold returns exactly
\* UnknownType (-3), whatever the tag's length, and invokes no callback.
C1_UnknownTagReturnsUnknownType ==
    (/\ last.op = "unserializeUnknown"
     /\ Terminated(last.bufSize)
     /\ LeadingTag \notin DOMAIN pool)
    => (last.ret = -3 /\ last.calls = <<>>)

\* C2: the result of serialize, unserialize and unserializeUnknown is
\* discriminated: tag_len+1+payload_size exactly when the call succeeded
\* (record written / destination filled / callback invoked once), and
\* otherwise exactly the negative code of the failure that occurred.
C2_SerializeResult ==
    last.op = "serialize" =>
        IF RecLen(last.T) <= last.bufSize
        THEN /\ last.ret = RecLen(last.T)
             /\ BufBytes(0, RecLen(last.T)) = Record(last.T, last.val)
        ELSE last.ret = -1

C2_UnserializeResult ==
    last.op = "unserialize" =>
        IF RecLen(last.T) > last.bufSize
        THEN last.ret = -1 /\ last.out = last.val
        ELSE IF ~Terminated(last.bufSize) \/ LeadingTag # TypeName(last.T)
        THEN last.ret = -2 /\ last.out = last.val
        ELSE /\ last.ret = RecLen(last.T)
             /\ last.out = BufBytes(Len(LeadingTag) + 1, RecLen(last.T))

C2_UnserializeUnknownResult ==
    last.op = "unserializeUnknown" =>
        IF ~Terminated(last.bufSize)
        THEN last.ret = -1 /\ last.calls = <<>>
        ELSE IF LeadingTag \notin DOMAIN pool
        THEN last.ret = -3 /\ last.calls = <<>>
        ELSE LET n == Len(LeadingTag)
                 e == pool[LeadingTag]
             IN IF last.bufSize - (n + 1) < e.size
                THEN last.ret = -1 /\ last.calls = <<>>
                ELSE /\ last.ret = n + 1 + e.size
                     /\ last.calls =
                            <<[cb |-> e.cb, arg |-> BufBytes(n + 1, n + 1 + e.size)]>>

\* C2: the three results above together: each buffer operation returns
\* tag_len+1+payload_size exactly when it succeeded and otherwise exactly
\* the negative code of its failure (BufferTooSmall -1, WrongType -2,
\* UnknownType -3).
C2_DiscriminatedResult ==
    /\ C2_SerializeResult
    /\ C2_UnserializeResult
    /\ C2_UnserializeUnknownResult

\* C3: buffer round trip.  serialize(v) into a buffer of at least
\* L = tag_len+1+payload_size bytes, followed by unserialize of the same
\* type from that buffer, fills the destination with v byte for byte, and
\* both calls return L.
C3_BufferRoundTrip ==
    [][(/\ last.op = "serialize"
        /\ last.bufSize >= RecLen(last.T)
        /\ last'.op = "unserialize"
        /\ last'.T = last.T
        /\ last'.bufSize >= RecLen(last.T))
       => (/\ last.ret = RecLen(last.T)
           /\ last'.ret = RecLen(last.T)
           /\ last'.out = last.val)]_vars

\* a value with a non-empty tag read back from the buffer into a
\* destination that held something else
C3_Witness ==
    /\ last.op = "unserialize"
    /\ TypeName(last.T) # <<>>
    /\ last.ret = RecLen(last.T)
    /\ last.out # last.val
    /\ last.out = BufBytes(Len(TypeName(last.T)) + 1, RecLen(last.T))

\* C5: BufferTooSmall boundary, L = tag_len+1+payload_size.  serialize
\* returns L for every capacity >= L and BufferTooSmall for every smaller
\* one; unserialize of the type whose record the buffer holds returns L
\* for every bufSize >= L, and BufferTooSmall for every smaller bufSize.
C5_BufferTooSmallBoundary ==
    /\ last.op = "serialize" =>
          /\ last.bufSize >= RecLen(last.T) => last.ret = RecLen(last.T)
          /\ last.bufSize < RecLen(last.T) => last.ret = -1
    /\ (last.op = "unserialize" /\ LeadingTag = TypeName(last.T)) =>
          /\ last.bufSize >= RecLen(last.T) => last.ret = RecLen(last.T)
          /\ last.bufSize < RecLen(last.T) => last.ret = -1

\* unserialize with bufSize = L-1 on a buffer that holds a record of the
\* type (with a non-empty tag and a payload that is not all zero, so a
\* serialize with capacity >= L came before)
C5_Witness ==
    /\ last.op = "unserialize"
    /\ TypeName(last.T) # <<>>
    /\ LeadingTag = TypeName(last.T)
    /\ \E i \in (Len(LeadingTag) + 2)..RecLen(last.T) : buffer[i] # 0
    /\ last.bufSize = RecLen(last.T) - 1
    /\ last.ret = -1

\* the step is an unserialize of a type other than the one whose record
\* the preceding serialize wrote, on a bufSize that covers that record
C4_BufferCase ==
    /\ last.op = "serialize"
    /\ last.ret = RecLen(last.T)
    /\ last'.op = "unserialize"
    /\ last'.T # last.T
    /\ last'.bufSize >= last.ret

\* the step is a known-type read, from the start of a stream that holds
\* exactly one record, of a type other than the record's
C4_StreamCase ==
    /\ kind = "stream"
    /\ Len(written) = 1
    /\ sdata = Record(written[1].T, written[1].v)
    /\ is = [pos |-> 0, eof |-> FALSE, fail |-> FALSE]
    /\ last'.op = "read"
    /\ last'.T # written[1].T

\* C4 as claimed: decoding a buffer or stream that holds exactly one record
\* written for A as a type B with a different tag returns WrongType /
\* raises "wrong type", and leaves the destination unmodified, for any tag
\* lengths and payload sizes.
C4_Original ==
    [][/\ C4_BufferCase => (last'.ret = -2 /\ last'.out = last'.val)
       /\ C4_StreamCase => (last'.exc = "wrong type" /\ last'.out = last'.val)]_vars

\* C4 as amended: the destination is unmodified in every case; the buffer
\* call returns WrongType when bufSize >= tag_len_B+1+payload_size_B and
\* BufferTooSmall otherwise; the stream read raises "wrong type" when the
\* stream holds at least tag_len_B+1 bytes and "eof" otherwise.
C4_TypeMismatchSafety ==
    [][/\ C4_BufferCase =>
             /\ last'.out = last'.val
             /\ last'.ret = IF last'.bufSize >= RecLen(last'.T) THEN -2 ELSE -1
       /\ C4_StreamCase =>
             /\ last'.out = last'.val
             /\ last'.exc = IF Len(sdata) >= Len(TypeName(last'.T)) + 1
                            THEN "wrong type" ELSE "eof"]_vars

\* a stream holding one record was read from its start as another type,
\* into a destination that differs from the record's payload
C4_Witness ==
    /\ last.op = "read"
    /\ last.exc = "wrong type"
    /\ last.pos0 = 0
    /\ Len(written) = 1
    /\ sdata = Record(written[1].T, written[1].v)
    /\ last.T # written[1].T
    /\ last.out = last.val
    /\ last.val # written[1].v

\* C10: peekTypeName returns the bytes before the first terminator when
\* one exists within the first bufSize bytes and the empty string when none
\* does (bufSize = 0 included); it examines no byte at index >= bufSize,
\* and it changes neither the buffer nor any other state.
C10_PeekTypeName ==
    [][last'.op = "peekTypeName" =>
          /\ last'.out = IF Terminated(last'.bufSize) THEN LeadingTag ELSE <<>>
          /\ last'.reads <= last'.bufSize
          /\ UNCHANGED <<kind, buffer, sdata, is, written, pool>>]_vars

\* a peek that finds no terminator within bufSize although the buffer has
\* one further on
C10_Witness ==
    /\ last.op = "peekTypeName"
    /\ last.bufSize > 0
    /\ last.bufSize < BufCap
    /\ ~Terminated(last.bufSize)
    /\ last.out = <<>>

\* the cursor of a good stream is at the start of the i-th written record,
\* and the stream holds that record whole
AtRecord(i) ==
    /\ kind = "stream"
    /\ i \in 1..Len(written)
    /\ Good(is)
    /\ is.pos = RecStart(i)
    /\ RecStart(i + 1) <= Len(sdata)

\* C6: after writes of v1..vn (types T1..Tn), known-type reads of T1..Tn
\* in the same order all succeed: the read of Ti at the start of record i
\* yields vi and leaves the cursor at the start of record i+1, which after
\* the n-th read is the end of the data.
C6_InOrderRead ==
    [][\A i \in 1..Len(written) :
          (AtRecord(i) /\ last'.op = "read" /\ last'.T = written[i].T)
          => /\ last'.exc = "none"
             /\ last'.out = written[i].v
             /\ is' = [pos |-> is.pos + RecLen(written[i].T),
                       eof |-> FALSE, fail |-> FALSE]
             /\ is'.pos = RecStart(i + 1)
             /\ (i = Len(written) /\ Len(sdata) = TotalLen(written))
                   => is'.pos = Len(sdata')]_vars

\* two records of different types written, the second just read: the
\* cursor is at the end of the data
C6_Witness ==
    /\ last.op = "read"
    /\ last.exc = "none"
    /\ Len(written) = 2
    /\ written[1].T # written[2].T
    /\ last.T = written[2].T
    /\ last.pos0 = RecStart(2)
    /\ last.out = written[2].v
    /\ last.out # last.val
    /\ is.pos = Len(sdata)
    /\ Len(sdata) = TotalLen(written)

\* C7, second half: after a "wrong type" failure at the start of a whole
\* record, the next known-type read with the record's type succeeds and
\* returns the record's value
C7_FollowingRead ==
    \A i \in 1..Len(written) :
        (/\ last.op = "read" /\ last.exc = "wrong type"
         /\ last.pos0 = RecStart(i)
         /\ RecStart(i + 1) <= Len(sdata)
         /\ last'.op = "read" /\ last'.T = written[i].T)
        => (last'.exc = "none" /\ last'.out = written[i].v)

\* C7 as claimed: every known-type read attempted at the start of a record
\* whose tag differs from the expected one fails with "wrong type" carrying
\* the record's tag, with the cursor back at the position recorded before
\* the read; and a following read with the record's type succeeds.
C7_Original ==
    [][/\ \A i \in 1..Len(written) :
             (AtRecord(i) /\ last'.op = "read" /\ last'.T # written[i].T)
             => /\ last'.exc = "wrong type"
                /\ last'.name = TypeName(written[i].T)
                /\ last'.pos0 = is.pos
                /\ is' = is
       /\ C7_FollowingRead]_vars

\* C7 as amended: the same, provided at least expected_tag_len+1 bytes
\* remain in the stream from the record's start; with fewer the read fails
\* with "eof" and the stream is left failed at the end of the data.
C7_KnownTypeMismatch ==
    [][/\ \A i \in 1..Len(written) :
             (AtRecord(i) /\ last'.op = "read" /\ last'.T # written[i].T)
             => IF Len(sdata) - is.pos >= Len(TypeName(last'.T)) + 1
                THEN /\ last'.exc = "wrong type"
                     /\ last'.name = TypeName(written[i].T)
                     /\ last'.pos0 = is.pos
                     /\ is' = is
                ELSE /\ last'.exc = "eof"
                     /\ is' = [pos |-> Len(sdata), eof |-> TRUE, fail |-> TRUE]
       /\ C7_FollowingRead]_vars

\* a read of the second record with another type's tag failed with "wrong
\* type": the exception names the record's tag, the cursor is back
C7_Witness ==
    /\ last.op = "read"
    /\ last.exc = "wrong type"
    /\ Len(written) = 2
    /\ last.pos0 = RecStart(2)
    /\ Len(sdata) = TotalLen(written)
    /\ last.T # written[2].T
    /\ last.name = TypeName(written[2].T)
    /\ last.name # <<>>
    /\ is = [pos |-> RecStart(2), eof |-> FALSE, fail |-> FALSE]

\* the stream's last record has its tag and terminator, and its payload
\* lacks k bytes, 1 <= k < payload_size; the cursor of the good stream is
\* at the start of that record
AtTruncatedRecord ==
    /\ kind = "stream"
    /\ written # <<>>
    /\ Good(is)
    /\ is.pos = RecStart(Len(written))
    /\ LET k == TotalLen(written) - Len(sdata)
       IN k >= 1 /\ k < SizeOf(written[Len(written)].T)

\* C9: on such a record the known-type read with the record's type and the
\* unknown-type read with the tag registered both fail with "eof", no
\* callback is invoked, and the cursor never passes the end of the data.
C9_EofOnTruncation ==
    [][/\ (/\ AtTruncatedRecord
           /\ \/ last'.op = "read" /\ last'.T = written[Len(written)].T
              \/ /\ last'.op = "readUnknown"
                 /\ TypeName(written[Len(written)].T) \in DOMAIN pool)
          => (last'.exc = "eof" /\ last'.calls = <<>>)
       /\ is'.pos <= Len(sdata')]_vars

\* an unknown-type read of a registered type hit the end of the data
\* inside the payload of the last record
C9_Witness ==
    /\ last.op = "readUnknown"
    /\ last.exc = "eof"
    /\ last.calls = <<>>
    /\ written # <<>>
    /\ last.pos0 = RecStart(Len(written))
    /\ TypeName(written[Len(written)].T) \in DOMAIN pool
    /\ Len(sdata) = TotalLen(written) - 1
    /\ SizeOf(written[Len(written)].T) > 1
    /\ is.pos = Len(sdata)

\* C8, buffer, unregistered tag: the decode fails with UnknownType, invokes
\* no callback and leaves the pool as it was
C8_BufferUnknown ==
    (/\ last'.op = "unserializeUnknown"
     /\ Terminated(last'.bufSize)
     /\ LeadingTag \notin DOMAIN pool)
    => (last'.ret = -3 /\ last'.calls = <<>> /\ pool' = pool)

\* C8, buffer, registered tag with its payload within bufSize: the decode
\* succeeds and invokes the callback registered for the tag
C8_BufferKnown ==
    (/\ last'.op = "unserializeUnknown"
     /\ Terminated(last'.bufSize)
     /\ LeadingTag \in DOMAIN pool
     /\ last'.bufSize >= Len(LeadingTag) + 1 + pool[LeadingTag].size)
    => LET n == Len(LeadingTag)
           e == pool[LeadingTag]
       IN /\ last'.ret = n + 1 + e.size
          /\ last'.calls = <<[cb |-> e.cb, arg |-> BufBytes(n + 1, n + 1 + e.size)]>>
          /\ pool' = pool

\* C8, stream, at the start of a whole record: "unknown type" without a
\* callback when the record's tag is not registered, else success with the
\* callback registered for the tag; the pool is as it was
C8_Stream ==
    \A i \in 1..Len(written) :
        (AtRecord(i) /\ last'.op = "readUnknown")
        => /\ pool' = pool
           /\ IF TypeName(written[i].T) \in DOMAIN pool
              THEN /\ last'.exc = "none"
                   /\ last'.calls = <<[cb |-> pool[TypeName(written[i].T)].cb,
                                       arg |-> written[i].v]>>
              ELSE /\ last'.exc = "unknown type"
                   /\ last'.calls = <<>>

\* C8: with a pool of exactly two types, a decode of a record of an
\* unregistered type fails with UnknownType without changing the pool, and
\* decodes of records of the two registered types through the same pool
\* succeed and invoke their callbacks, whatever failed before (buffer and
\* stream).
C8_UnknownTypeIsolation ==
    [][Cardinality(DOMAIN pool) = 2
       => (C8_BufferUnknown /\ C8_BufferKnown /\ C8_Stream)]_vars

\* a freshly constructed input stream
FreshStream == [pos |-> 0, eof |-> FALSE, fail |-> FALSE]

\* C11: both transports produce the same wire format.  The bytes a stream
\* write appends equal the first tag_len+1+payload_size bytes a buffer
\* serialize writes, namely tag ++ 0 ++ payload; so a record serialized
\* with one API is decoded to the same value by the other API's known-type
\* read.
C11_SameWireFormat ==
    /\ (last.op = "serialize" /\ last.ret >= 0) =>
          LET T == last.T
              rec == BufBytes(0, RecLen(T))
          IN /\ rec = Record(T, last.val)
             /\ rec = OutputArchive_serializeImpl(<<>>, TypeName(T), last.val,
                                                  SizeOf(T))
             /\ \A t0 \in Values(T) :
                   LET r == InputArchive_unserializeImpl(rec, FreshStream,
                                TypeName(T), t0, SizeOf(T))
                   IN r.exc = "none" /\ r.data = last.val /\ r.is.pos = RecLen(T)
    /\ last.op = "write" =>
          LET T == last.T
              rec == SubSeq(sdata, Len(sdata) - RecLen(T) + 1, Len(sdata))
          IN /\ Len(sdata) >= RecLen(T)
             /\ rec = Record(T, last.val)
             /\ \A b \in RecLen(T)..BufCap :
                   SubSeq(serializeImpl(buffer, b, TypeName(T), last.val,
                                        SizeOf(T)).buffer, 1, RecLen(T)) = rec
             /\ \A t0 \in Values(T) :
                   LET r == unserializeImpl(TypeName(T), t0, SizeOf(T), rec,
                                            RecLen(T))
                   IN r.ret = RecLen(T) /\ r.data = last.val

\* a second record, with a non-empty tag and a payload that is not all
\* zero, has just been written to the stream
C11_Witness ==
    /\ last.op = "write"
    /\ Len(written) = 2
    /\ TypeName(last.T) # <<>>
    /\ \E i \in 1..Len(last.val) : last.val[i] # 0
    /\ Len(sdata) = TotalLen(written)

\* a terminator follows the cursor in the stream's data
StreamTerminated == \E i \in (is.pos + 1)..Len(sdata) : sdata[i] = 0

\* the bytes from the cursor to the next terminator (to the end of the
\* data when there is none)
StreamTag ==
    LET zs == {i \in (is.pos + 1)..Len(sdata) : sdata[i] = 0}
        n == IF zs = {} THEN Len(sdata)
             ELSE (CHOOSE i \in zs : \A j \in zs : i <= j) - 1
    IN [i \in 1..(n - is.pos) |-> sdata[is.pos + i]]

\* C12: the pool is a mapping and the last registration wins.  A register
\* call sets the entry of its tag to its own size and callback and leaves
\* every other entry as it was, so the pool holds one entry per tag, the
\* one of the tag's most recent registration; no other call changes the
\* pool; and an unknown-type decode of a record with tag t invokes at most
\* one callback, the one the pool holds for t, with the entry's payload
\* size - in particular the callback of a registration that came just
\* before the decode.
C12_LastRegistrationWins ==
    [][/\ last'.op = "registerType" =>
             LET n == TypeName(last'.T)
             IN /\ DOMAIN pool' = (DOMAIN pool) \cup {n}
                /\ pool'[n] = [size |-> SizeOf(last'.T), cb |-> last'.ret]
                /\ \A m \in (DOMAIN pool) \ {n} : pool'[m] = pool[m]
       /\ last'.op # "registerType" => pool' = pool
       /\ last'.op = "unserializeUnknown" =>
             \/ last'.calls = <<>>
             \/ /\ LeadingTag \in DOMAIN pool
                /\ Len(last'.calls) = 1
                /\ last'.calls[1].cb = pool[LeadingTag].cb
                /\ Len(last'.calls[1].arg) = pool[LeadingTag].size
       /\ last'.op = "readUnknown" =>
             \/ last'.calls = <<>>
             \/ /\ StreamTag \in DOMAIN pool
                /\ Len(last'.calls) = 1
                /\ last'.calls[1].cb = pool[StreamTag].cb
                /\ Len(last'.calls[1].arg) = pool[StreamTag].size
       /\ (/\ last.op = "registerType"
           /\ \/ /\ last'.op = "unserializeUnknown"
                 /\ LeadingTag = TypeName(last.T)
                 /\ last'.bufSize >= RecLen(last.T)
              \/ /\ last'.op = "readUnknown"
                 /\ Good(is)
                 /\ StreamTerminated
                 /\ StreamTag = TypeName(last.T)
                 /\ Len(sdata) - is.pos >= RecLen(last.T))
          => /\ Len(last'.calls) = 1
             /\ last'.calls[1].cb = last.ret]_vars

\* a tag that had callback 1 has just been registered again with callback
\* 2, in a pool that holds another tag as well
C12_Witness ==
    /\ last.op = "registerType"
    /\ last.out = <<1>>
    /\ last.ret = 2
    /\ pool[last.name].cb = 2
    /\ Cardinality(DOMAIN pool) >= 2

\* C13: an unknown-type stream read on a good stream whose remaining data
\* holds a terminated tag that the pool does not hold fails with "unknown
\* type" carrying exactly that tag, invokes no callback and leaves the
\* stream as it was before the read, cursor at the record start; and after
\* any read that failed so, reading again with the same pool fails in the
\* same way, with the same tag, and leaves the cursor where it is.
C13_UnknownTagRewinds ==
    [][/\ (/\ last'.op = "readUnknown"
           /\ Good(is)
           /\ StreamTerminated
           /\ StreamTag \notin DOMAIN pool)
          => /\ last'.exc = "unknown type"
             /\ last'.name = StreamTag
             /\ last'.calls = <<>>
             /\ last'.pos0 = is.pos
             /\ is' = is
       /\ (last'.op = "readUnknown" /\ last'.exc = "unknown type")
          => /\ is'.pos = last'.pos0
             /\ UnknownInputArchive_unserialize(pool', sdata', is')
                   = [is |-> is', exc |-> "unknown type",
                      name |-> last'.name, calls |-> <<>>,
                      pos |-> last'.pos0]]_vars

\* the second written record, whose tag is not empty and is not in a pool
\* that holds other tags, has just been refused at its start
C13_Witness ==
    /\ last.op = "readUnknown"
    /\ last.exc = "unknown type"
    /\ Len(written) = 2
    /\ last.pos0 = RecStart(2)
    /\ is.pos = RecStart(2)
    /\ last.name = TypeName(written[2].T)
    /\ last.name # <<>>
    /\ pool # <<>>

\* C14: an unknown-type stream read that finds no terminator in the
\* remaining data (an empty remainder included) fails with "eof", invokes
\* no callback and does not rewind: the stream keeps the end-of-stream
\* state the failed extraction left, which is not the state is.seekg(pos)
\* would give, with the cursor at the end of the data, past the recorded
\* position whenever there was data left.  A read that fails with "unknown
\* type" leaves a good stream at the recorded position.
C14_EofDoesNotRewind ==
    [][/\ (last'.op = "readUnknown" /\ ~StreamTerminated)
          => /\ last'.exc = "eof"
             /\ last'.calls = <<>>
             /\ is'.eof
             /\ is' # seekg(sdata', is', last'.pos0)
             /\ Good(is) =>
                   /\ last'.pos0 = is.pos
                   /\ is' = [pos |-> Len(sdata), eof |-> TRUE,
                             fail |-> (is.pos = Len(sdata))]
                   /\ is.pos < Len(sdata) => is'.pos > last'.pos0
       /\ (last'.op = "readUnknown" /\ last'.exc = "unknown type")
          => /\ Good(is')
             /\ tellg(is').pos = last'.pos0]_vars

\* the last record was cut inside its tag and the unknown-type read from
\* its start has left the cursor at the end of the data
C14_Witness ==
    /\ last.op = "readUnknown"
    /\ last.exc = "eof"
    /\ last.calls = <<>>
    /\ written # <<>>
    /\ last.pos0 = RecStart(Len(written))
    /\ last.pos0 < Len(sdata)
    /\ \A i \in (last.pos0 + 1)..Len(sdata) : sdata[i] # 0
    /\ is.pos = Len(sdata)
    /\ is.eof

\* C15: frame conditions of the buffer API.  A serialize that returns an
\* error leaves the destination buffer unchanged; a successful one changes
\* only its first tag_len+1+payload_size bytes; a known-type unserialize
\* that returns an error (BufferTooSmall or WrongType) leaves the
\* destination value unchanged; and no decode call (unserialize,
\* unserializeUnknown, peekTypeName) changes the source buffer.
C15_BufferFrame ==
    [][/\ (last'.op = "serialize" /\ last'.ret < 0) => buffer' = buffer
       /\ (last'.op = "serialize" /\ last'.ret >= 0)
          => /\ last'.ret = RecLen(last'.T)
             /\ Len(buffer') = Len(buffer)
             /\ \A i \in (last'.ret + 1)..Len(buffer) : buffer'[i] = buffer[i]
       /\ (last'.op = "unserialize" /\ last'.ret < 0)
          => /\ last'.ret \in {BufferTooSmall, WrongType}
             /\ last'.out = last'.val
       /\ last'.op \in {"unserialize", "unserializeUnknown", "peekTypeName"}
          => buffer' = buffer]_vars

\* a serialize has been refused for a buffer that holds an earlier record
\* of another tag, where a partial write would have shown
C15_Witness ==
    /\ last.op = "serialize"
    /\ last.ret = BufferTooSmall
    /\ last.bufSize >= 1
    /\ Terminated(BufCap)
    /\ LeadingTag # <<>>
    /\ LeadingTag # TypeName(last.T)

====
